---- MODULE Spec2Model ----
(***************************************************************************)
(* A model of the Q-learning grid demo.                                    *)
(*                                                                         *)
(* The repository holds two builds of the same program:                    *)
(*   - src/unnamed/part_000 : the compiled application (validated          *)
(*     startTraining guarded by the `training` flag, resetTraining that    *)
(*     clears the table, train() with an episode-completion callback);     *)
(*     it is specification Spec.                                           *)
(*   - src/src/script.ts    : the TypeScript draft (train() at page load,  *)
(*     an unguarded startTraining with a random spawn, stub                *)
(*     cancelTraining/resetTraining, buildCancellableTask); it is          *)
(*     specification SpecTs.                                               *)
(* The learner (chooseAction, commitAction, learn, updateQValue,           *)
(* runEpisode, train) is the same code in both builds.                     *)
(*                                                                         *)
(* JavaScript runs one handler at a time; promise continuations are        *)
(* microtasks that run before the next timer or UI event, so one action    *)
(* below is one handler together with the continuations it resumes.        *)
(*                                                                         *)
(* Q-values are IEEE doubles in the source; the model computes them as     *)
(* exact rationals <<numerator, denominator>>, i.e. without rounding.      *)
(***************************************************************************)
EXTENDS Integers, Sequences, FiniteSets, TLC

\* ---------------------------------------------------------------- bounds

\* Largest coordinate of the modelled grid (the source's grid is 11 x 11,
\* largest coordinate 10); the goal stays the centre cell.
MaxCoord == 2

\* Total number of learn() calls explored.
MaxDecisions == 3

\* Total number of train() invocations explored.
MaxRuns == 2

\* The exploring draws of Math.random() in a training that is run to its
\* end: none, which is pure exploitation.
MaxExplores == 0

\* ------------------------------------------------------------- rationals

RECURSIVE GCD(_, _)
GCD(a, b) == IF b = 0 THEN a ELSE GCD(b, a % b)

Abs(n) == IF n < 0 THEN -n ELSE n

\* The rational n/d in lowest terms with a positive denominator.
Rat(n, d) ==
    LET g == GCD(Abs(n), Abs(d))
        s == IF d < 0 THEN -1 ELSE 1
    IN  <<s * (n \div g), Abs(d) \div g>>

Zero == <<0, 1>>

RatOfInt(n) == <<n, 1>>

RatAdd(p, q) ==
    LET g == GCD(p[2], q[2])
    IN  Rat(p[1] * (q[2] \div g) + q[1] * (p[2] \div g), (p[2] \div g) * q[2])

RatNeg(p) == <<-p[1], p[2]>>

RatSub(p, q) == RatAdd(p, RatNeg(q))

RatMul(p, q) ==
    LET g1 == GCD(Abs(p[1]), q[2])
        g2 == GCD(Abs(q[1]), p[2])
        h1 == IF g1 = 0 THEN 1 ELSE g1
        h2 == IF g2 = 0 THEN 1 ELSE g2
    IN  Rat((p[1] \div h1) * (q[1] \div h2), (p[2] \div h2) * (q[2] \div h1))

RatLess(p, q) ==
    LET g == GCD(p[2], q[2])
    IN  p[1] * (q[2] \div g) < q[1] * (p[2] \div g)

\* Math.floor of a rational (\div rounds toward minus infinity).
Floor(p) == p[1] \div p[2]

\* ------------------------------------------------------ JavaScript numbers

\* A JavaScript number is a rational, or NaN, written as 0/0.
NaN == <<0, 0>>

isNaN(v) == v[2] = 0

\* v < w on JavaScript numbers: false as soon as one side is NaN.
NumLess(v, w) == ~isNaN(v) /\ ~isNaN(w) /\ RatLess(v, w)

\* The text of an input field is a sequence of one-character strings.
IsDigit(c) == c \in {"0", "1", "2", "3", "4", "5", "6", "7", "8", "9"}

DigitVal(c) ==
    CASE c = "0" -> 0 [] c = "1" -> 1 [] c = "2" -> 2 [] c = "3" -> 3
      [] c = "4" -> 4 [] c = "5" -> 5 [] c = "6" -> 6 [] c = "7" -> 7
      [] c = "8" -> 8 [] c = "9" -> 9

RECURSIVE SkipSpaces(_)
SkipSpaces(s) ==
    IF s # <<>> /\ Head(s) = " " THEN SkipSpaces(Tail(s)) ELSE s

\* The longest prefix of s made of digits.
RECURSIVE TakeDigits(_)
TakeDigits(s) ==
    IF s # <<>> /\ IsDigit(Head(s)) THEN <<Head(s)>> \o TakeDigits(Tail(s)) ELSE <<>>

RECURSIVE DigitsValue(_, _)
DigitsValue(ds, acc) ==
    IF ds = <<>> THEN acc ELSE DigitsValue(Tail(ds), 10 * acc + DigitVal(Head(ds)))

RECURSIVE Pow10(_)
Pow10(k) == IF k = 0 THEN 1 ELSE 10 * Pow10(k - 1)

HasSign(s) == s # <<>> /\ Head(s) \in {"-", "+"}

SignOf(s) == IF s # <<>> /\ Head(s) = "-" THEN -1 ELSE 1

\* parseInt(text), radix 10: leading blanks, an optional sign, the longest
\* run of digits; NaN when there is no digit.
parseInt(text) ==
    LET t    == SkipSpaces(text)
        body == IF HasSign(t) THEN Tail(t) ELSE t
        ds   == TakeDigits(body)
    IN  IF ds = <<>> THEN NaN ELSE RatOfInt(SignOf(t) * DigitsValue(ds, 0))

\* parseFloat(text): leading blanks, an optional sign, digits, an optional
\* "." and digits (no exponent part occurs in the modelled texts); NaN when
\* neither side of the point has a digit.
parseFloat(text) ==
    LET t     == SkipSpaces(text)
        body  == IF HasSign(t) THEN Tail(t) ELSE t
        ip    == TakeDigits(body)
        rest  == SubSeq(body, Len(ip) + 1, Len(body))
        fp    == IF rest # <<>> /\ Head(rest) = "." THEN TakeDigits(Tail(rest)) ELSE <<>>
    IN  IF ip = <<>> /\ fp = <<>>
        THEN NaN
        ELSE Rat(SignOf(t) * (DigitsValue(ip, 0) * Pow10(Len(fp)) + DigitsValue(fp, 0)),
                 Pow10(Len(fp)))

\* ------------------------------------------------------------------ world

width == MaxCoord + 1

height == MaxCoord + 1

goal == [x |-> MaxCoord \div 2, y |-> MaxCoord \div 2]

Positions == [x : 0 .. width - 1, y : 0 .. height - 1]

actions == <<"UP", "DOWN", "LEFT", "RIGHT">>

ActionSet == {actions[i] : i \in 1 .. Len(actions)}

\* The values Math.random() is drawn from, all in [0, 1).
RandomDraws == {<<0, 1>>, <<1, 4>>, <<1, 2>>, <<3, 4>>}

\* ------------------------------------------------------------------ state

VARIABLES
    position,         \* ai.position
    spawn,            \* ai.spawn
    episodes,         \* ai.episodes : the training history
    qTable,           \* ai.qTable : state key -> (action -> Q-value)
    explorationRate,  \* ai.explorationRate
    learningRate,     \* ai.learningRate
    discountFactor,   \* ai.discountFactor
    runs,             \* every train() invocation so far, in call order
    now,              \* the value Date.now() last returned
    inputs,           \* the texts of the parameter input fields
    training,         \* the `training` flag of the compiled application
    disabled,         \* the `disabled` attribute of the controls
    alertMsg,         \* the text of the last alert()
    consoleLog,       \* the last line console.log wrote
    statEpisodes,     \* the episode count updateUI last wrote on the page
    task,             \* the object buildCancellableTask returned, or none yet
    nDecisions,       \* history: number of learn() calls so far
    updated,          \* history: the (state key, action) pairs written since
                      \* the table was last emptied
    nExplores,        \* history: number of exploring draws so far, counted
                      \* where their number is bounded
    tape,             \* history: the random draws of a first training and
                      \* its outcome, for a second one to take the same
    heap,             \* the Position objects: object identity -> value
    refs,             \* which object each holder of a Position refers to
    ai2               \* a second QLearningAI in the same world: its fields
                      \* and its train calls

vars == <<position, spawn, episodes, qTable, explorationRate, learningRate,
          discountFactor, runs, now, inputs, training, disabled, alertMsg,
          consoleLog, statEpisodes, task, nDecisions, updated, nExplores, tape, heap, refs, ai2>>

aiVars == <<position, spawn, episodes, qTable, nDecisions, updated>>

hyperVars == <<explorationRate, learningRate, discountFactor>>

uiVars == <<training, disabled, alertMsg, consoleLog>>

\* The state only the harness specifications move.
harnessVars == <<nExplores, tape, heap, refs, ai2>>

\* Nothing recorded.
NoTape == [phase |-> 0, form |-> <<>>, draws |-> <<>>, cursor |-> 1,
           qTable |-> <<>>, episodes |-> <<>>]

\* The Position objects that exist once the script has run to its first
\* train call whose generator holds an object at pos: the goal literal, the
\* two field initialisers of AI, and the literal given to
\* staticSpawnGenerator.
ObjectsAtLoad(pos) ==
    [heap |-> <<goal, [x |-> 0, y |-> 0], [x |-> 0, y |-> 0], pos>>,
     refs |-> [goal |-> 1, position |-> 2, spawn |-> 3, generator |-> 4,
               decisions |-> <<>>, started |-> FALSE]]

InitHarness ==
    /\ nExplores = 0
    /\ tape = NoTape
    /\ heap = ObjectsAtLoad([x |-> 0, y |-> 0]).heap
    /\ refs = ObjectsAtLoad([x |-> 0, y |-> 0]).refs
    /\ ai2 = [position |-> [x |-> 0, y |-> 0], spawn |-> [x |-> 0, y |-> 0],
              episodes |-> <<>>, qTable |-> <<>>, runs |-> <<>>]

\* --------------------------------------------------------------------- AI

manhattanDistanceToGoal(pos) == Abs(pos.x - goal.x) + Abs(pos.y - goal.y)

Max(a, b) == IF a > b THEN a ELSE b

Min(a, b) == IF a < b THEN a ELSE b

\* `${x},${y}`
StateKey(pos) == ToString(pos.x) \o "," \o ToString(pos.y)

getQStateKey == StateKey(position)

getQValue(stateKey, action) ==
    IF stateKey \in DOMAIN qTable THEN qTable[stateKey][action] ELSE Zero

\* The reduce of chooseAction with >= in place of >: among equal values the
\* last one wins.
RECURSIVE ReduceBestLast(_, _, _)
ReduceBestLast(qStateKey, bestAction, i) ==
    IF i > Len(actions)
    THEN bestAction
    ELSE ReduceBestLast(qStateKey,
                        IF RatLess(getQValue(qStateKey, actions[i]), getQValue(qStateKey, bestAction))
                        THEN bestAction
                        ELSE actions[i],
                        i + 1)

\* actions.reduce((best, a) => Q(a) > Q(best) ? a : best, actions[0]),
\* from index i on.
RECURSIVE ReduceBest(_, _, _)
ReduceBest(qStateKey, bestAction, i) ==
    IF i > Len(actions)
    THEN bestAction
    ELSE ReduceBest(qStateKey,
                    IF RatLess(getQValue(qStateKey, bestAction), getQValue(qStateKey, actions[i]))
                    THEN actions[i]
                    ELSE bestAction,
                    i + 1)

\* Math.random() < this.explorationRate
Explores(u1) == RatLess(u1, explorationRate)

\* The random draws with which chooseAction exploits.
ExploitDraws == {u \in RandomDraws : ~Explores(u)}

\* chooseAction whose exploring choice also depends on how many trainings
\* were started.
chooseActionCounting(u1, u2) ==
    IF Explores(u1)
    THEN actions[((Floor(RatMul(u2, RatOfInt(Len(actions)))) + Len(runs) - 1) % Len(actions)) + 1]
    ELSE ReduceBest(getQStateKey, actions[1], 1)

\* u1 and u2 are the values Math.random() returns; the second call is made
\* only when the first explores.
chooseAction(u1, u2) ==
    IF Explores(u1)
    THEN actions[Floor(RatMul(u2, RatOfInt(Len(actions)))) + 1]
    ELSE ReduceBest(getQStateKey, actions[1], 1)

\* commitAction on a torus: a move into a boundary comes out on the
\* opposite side.
commitActionWraps(pos, action) ==
    CASE action = "UP"    -> [pos EXCEPT !.y = (pos.y - 1) % height]
      [] action = "DOWN"  -> [pos EXCEPT !.y = (pos.y + 1) % height]
      [] action = "LEFT"  -> [pos EXCEPT !.x = (pos.x - 1) % width]
      [] action = "RIGHT" -> [pos EXCEPT !.x = (pos.x + 1) % width]
      [] OTHER            -> pos

\* commitAction with the clamp of DOWN and RIGHT left out.
commitActionUnclamped(pos, action) ==
    CASE action = "UP"    -> [pos EXCEPT !.y = Max(0, pos.y - 1)]
      [] action = "DOWN"  -> [pos EXCEPT !.y = pos.y + 1]
      [] action = "LEFT"  -> [pos EXCEPT !.x = Max(0, pos.x - 1)]
      [] action = "RIGHT" -> [pos EXCEPT !.x = pos.x + 1]
      [] OTHER            -> pos

\* commitAction with the directions of UP and DOWN exchanged.
commitActionSwapsUpDown(pos, action) ==
    CASE action = "UP"    -> [pos EXCEPT !.y = Min(height - 1, pos.y + 1)]
      [] action = "DOWN"  -> [pos EXCEPT !.y = Max(0, pos.y - 1)]
      [] action = "LEFT"  -> [pos EXCEPT !.x = Max(0, pos.x - 1)]
      [] action = "RIGHT" -> [pos EXCEPT !.x = Min(width - 1, pos.x + 1)]
      [] OTHER            -> pos

\* The position commitAction leaves in ai.position when it was pos.
commitAction(pos, action) ==
    CASE action = "UP"    -> [pos EXCEPT !.y = Max(0, pos.y - 1)]
      [] action = "DOWN"  -> [pos EXCEPT !.y = Min(height - 1, pos.y + 1)]
      [] action = "LEFT"  -> [pos EXCEPT !.x = Max(0, pos.x - 1)]
      [] action = "RIGHT" -> [pos EXCEPT !.x = Min(width - 1, pos.x + 1)]
      [] OTHER            -> pos

\* Math.max(...values) of a non-empty sequence of Q-values.
RECURSIVE MathMax(_)
MathMax(values) ==
    IF Len(values) = 1
    THEN values[1]
    ELSE LET m == MathMax(Tail(values))
         IN  IF RatLess(values[1], m) THEN m ELSE values[1]

ZeroRow == [a \in ActionSet |-> Zero]

\* updateQValue creating a missing row with the new value in all four
\* columns.
updateQValueFillsRow(oldState, action, reward, newPosition) ==
    LET stateKey     == StateKey(oldState)
        currentQ     == getQValue(stateKey, action)
        nextStateKey == StateKey(newPosition)
        maxNextQ     == MathMax([i \in 1 .. Len(actions) |-> getQValue(nextStateKey, actions[i])])
        newQ         == RatAdd(currentQ,
                               RatMul(learningRate,
                                      RatSub(RatAdd(reward, RatMul(discountFactor, maxNextQ)),
                                             currentQ)))
        withRow      == IF stateKey \in DOMAIN qTable
                        THEN qTable
                        ELSE [k \in DOMAIN qTable \cup {stateKey} |->
                                 IF k = stateKey THEN [a \in ActionSet |-> newQ] ELSE qTable[k]]
    IN  [withRow EXCEPT ![stateKey][action] = newQ]

\* updateQValue bootstrapping from the taken action's value in the next
\* state instead of the maximum over the actions.
updateQValueSameAction(oldState, action, reward, newPosition) ==
    LET stateKey     == StateKey(oldState)
        currentQ     == getQValue(stateKey, action)
        nextStateKey == StateKey(newPosition)
        nextQ        == getQValue(nextStateKey, action)
        newQ         == RatAdd(currentQ,
                               RatMul(learningRate,
                                      RatSub(RatAdd(reward, RatMul(discountFactor, nextQ)),
                                             currentQ)))
        withRow      == IF stateKey \in DOMAIN qTable
                        THEN qTable
                        ELSE [k \in DOMAIN qTable \cup {stateKey} |->
                                 IF k = stateKey THEN ZeroRow ELSE qTable[k]]
    IN  [withRow EXCEPT ![stateKey][action] = newQ]

\* The table updateQValue leaves in ai.qTable; newPosition is ai.position at
\* the time of the call (learn has already moved the agent).
\* updateQValue whose formula leaves out "- currentQ": the new value is the
\* old one plus learningRate times the target.
updateQValueAccumulates(oldState, action, reward, newPosition) ==
    LET stateKey     == StateKey(oldState)
        currentQ     == getQValue(stateKey, action)
        nextStateKey == StateKey(newPosition)
        maxNextQ     == MathMax([i \in 1 .. Len(actions) |-> getQValue(nextStateKey, actions[i])])
        newQ         == RatAdd(currentQ,
                               RatMul(learningRate,
                                      RatAdd(reward, RatMul(discountFactor, maxNextQ))))
        withRow      == IF stateKey \in DOMAIN qTable
                        THEN qTable
                        ELSE [k \in DOMAIN qTable \cup {stateKey} |->
                                 IF k = stateKey THEN ZeroRow ELSE qTable[k]]
    IN  [withRow EXCEPT ![stateKey][action] = newQ]

\* updateQValue that takes its state key after the move, from the agent's
\* position, in place of oldState.
updateQValueAtNewState(oldState, action, reward, newPosition) ==
    LET stateKey     == StateKey(newPosition)
        currentQ     == getQValue(stateKey, action)
        nextStateKey == StateKey(newPosition)
        maxNextQ     == MathMax([i \in 1 .. Len(actions) |-> getQValue(nextStateKey, actions[i])])
        newQ         == RatAdd(currentQ,
                               RatMul(learningRate,
                                      RatSub(RatAdd(reward, RatMul(discountFactor, maxNextQ)),
                                             currentQ)))
        withRow      == IF stateKey \in DOMAIN qTable
                        THEN qTable
                        ELSE [k \in DOMAIN qTable \cup {stateKey} |->
                                 IF k = stateKey THEN ZeroRow ELSE qTable[k]]
    IN  [withRow EXCEPT ![stateKey][action] = newQ]

updateQValue(oldState, action, reward, newPosition) ==
    LET stateKey     == StateKey(oldState)
        currentQ     == getQValue(stateKey, action)
        nextStateKey == StateKey(newPosition)
        maxNextQ     == MathMax([i \in 1 .. Len(actions) |-> getQValue(nextStateKey, actions[i])])
        newQ         == RatAdd(currentQ,
                               RatMul(learningRate,
                                      RatSub(RatAdd(reward, RatMul(discountFactor, maxNextQ)),
                                             currentQ)))
        withRow      == IF stateKey \in DOMAIN qTable
                        THEN qTable
                        ELSE [k \in DOMAIN qTable \cup {stateKey} |->
                                 IF k = stateKey THEN ZeroRow ELSE qTable[k]]
    IN  [withRow EXCEPT ![stateKey][action] = newQ]

\* A reward without the distance penalty: 100 on the goal, 0 elsewhere.
RewardAtGoalOnly(pos) ==
    IF pos.x = goal.x /\ pos.y = goal.y THEN RatOfInt(100) ELSE Zero

\* A reward that pays the goal only a penalty-free step, and elsewhere
\* grows with the distance.
RewardAtByDistance(pos) == Rat(manhattanDistanceToGoal(pos), 10)

\* The reward of the position reached by a move.
RewardAt(pos) ==
    IF pos.x = goal.x /\ pos.y = goal.y
    THEN RatOfInt(100)
    ELSE Rat(-manhattanDistanceToGoal(pos), 10)

\* learn(): what it leaves in ai.position and ai.qTable, and the Decision it
\* returns.
\* learn that builds its Decision before it commits the action: the
\* Decision holds the position and the distance of the cell the agent left.
learnRecordsOldPosition(u1, u2) ==
    LET action         == chooseAction(u1, u2)
        oldPosition    == position
        newPosition    == commitAction(position, action)
        distanceToGoal == manhattanDistanceToGoal(oldPosition)
        reward         == RewardAt(newPosition)
    IN  [position |-> newPosition,
         qTable   |-> updateQValue(oldPosition, action, reward, newPosition),
         decision |-> [action |-> action, reward |-> reward,
                       distanceToGoal |-> distanceToGoal, position |-> oldPosition]]

learn(u1, u2) ==
    LET action         == chooseAction(u1, u2)
        oldPosition    == position
        newPosition    == commitAction(position, action)
        distanceToGoal == manhattanDistanceToGoal(newPosition)
        reward         == RewardAt(newPosition)
    IN  [position |-> newPosition,
         qTable   |-> updateQValue(oldPosition, action, reward, newPosition),
         decision |-> [action |-> action, reward |-> reward,
                       distanceToGoal |-> distanceToGoal, position |-> newPosition]]

\* ---------------------------------------------------------------- trainer

\* Date.now(): the clock does not run backwards.  The model lets one tick
\* pass between two handlers that read it, and a handler reads it once.
Clock == {now + 1}

staticSpawnGenerator(pos) == [kind |-> "static", position |-> pos]

randomSpawnGenerator == [kind |-> "random", position |-> [x |-> 0, y |-> 0]]

\* The positions a call of the spawn generator can return.
SpawnPoints(gen) ==
    IF gen.kind = "static"
    THEN {gen.position}
    ELSE {[x |-> Floor(RatMul(u, RatOfInt(width))), y |-> Floor(RatMul(v, RatOfInt(height)))] :
             u \in RandomDraws, v \in RandomDraws}

\* The episode object runEpisode creates.
NewEpisode(t) == [startTime |-> t, endTime |-> -1, decisions |-> <<>>]

NoEpisode == [startTime |-> -1, endTime |-> -1, decisions |-> <<>>]

\* No spawn point drawn yet.
NoPosition == [x |-> -1, y |-> -1]

\* train(episodes, decisionInterval, spawnPointGenerator, callback) up to
\* its loop: the run's local state.  `caller` records who invoked it,
\* spawnPoint what the generator returned for the current episode, and
\* callbacks how often the episode-completion callback was called.
train(eps, decisionInterval, gen, callback, caller, t) ==
    [episodes |-> eps, decisionInterval |-> decisionInterval,
     spawnPointGenerator |-> gen, callback |-> callback, caller |-> caller,
     i |-> 0, startTime |-> t, episode |-> NoEpisode, interval |-> FALSE,
     settled |-> "pending", elapsed |-> -1, spawnPoint |-> NoPosition,
     callbacks |-> 0]

\* The loop test of train with <= in place of <.
LoopContinuesInclusive(run) ==
    ~isNaN(run.episodes) /\ ~RatLess(run.episodes, RatOfInt(run.i))

\* The loop test `i < episodes` of train.
LoopContinues(run) == NumLess(RatOfInt(run.i), run.episodes)

\* One pass of train's loop from its test to the await: either the next
\* episode is started at the spawn point sp (runEpisode sets its interval
\* timer) or the promise is resolved with the elapsed time.
LoopStep(run, t, sp) ==
    IF LoopContinues(run)
    THEN [run EXCEPT !.episode = NewEpisode(t), !.interval = TRUE, !.spawnPoint = sp]
    ELSE [run EXCEPT !.settled = "fulfilled", !.elapsed = t - run.startTime]

\* ResetAgent emptying the table whenever an episode starts.
ResetAgentClearsTable(run, sp) ==
    [position |-> IF LoopContinues(run) THEN sp ELSE position,
     spawn    |-> IF LoopContinues(run) THEN sp ELSE spawn,
     qTable   |-> IF LoopContinues(run) THEN <<>> ELSE qTable]

\* The agent after the top of train's loop, where sp is what the spawn
\* generator returned: when the loop goes on, spawn and position are set to
\* copies of sp; nothing else of the agent is touched.
ResetAgent(run, sp) ==
    [position |-> IF LoopContinues(run) THEN sp ELSE position,
     spawn    |-> IF LoopContinues(run) THEN sp ELSE spawn,
     qTable   |-> qTable]

\* settle-once: resolve and reject of a promise act only while it is pending.
Settle(promise, outcome) == IF promise = "pending" THEN outcome ELSE promise

\* updateUI() without the line for resetButton: the reset control stays
\* enabled.
updateUIKeepsReset(flag) == [start |-> flag, reset |-> FALSE, params |-> flag]

\* updateUI(): every control takes the value of the training flag.
updateUI(flag) == [start |-> flag, reset |-> flag, params |-> flag]

\* The goal test written as ai.position === ai.world.goal: two different
\* objects are never identical.
AtGoalByIdentity(pos) == pos.x = goal.x /\ pos.y = goal.y /\ pos # goal

AtGoal(pos) == pos.x = goal.x /\ pos.y = goal.y

\* What follows a pass of train's loop: when it settled the run's promise,
\* the then-callback of the compiled startTraining, or resolve of the
\* cancellable task.  flag and dis are the training flag and the controls as
\* the handler has left them so far.
AfterTrain(run, flag, dis) ==
    /\ IF run.settled = "fulfilled" /\ run.caller = "startTraining"
       THEN /\ training' = FALSE
            /\ disabled' = updateUI(FALSE)
            /\ consoleLog' = "Training completed"
            /\ alertMsg' = "Training completed"
       ELSE /\ training' = flag
            /\ disabled' = dis
            /\ UNCHANGED <<consoleLog, alertMsg>>
    /\ task' = IF run.settled = "fulfilled" /\ run.caller = "task"
               THEN [task EXCEPT !.promise = Settle(@, "fulfilled")]
               ELSE task

\* The timer callback at the goal that stamps the end time and forgets to
\* clear the interval.
SealKeepsTimer(run, t) == [run EXCEPT !.episode.endTime = t]

\* The timer callback at the goal: clearInterval, and the end time stamped.
Seal(run, t) == [run EXCEPT !.interval = FALSE, !.episode.endTime = t]

\* updateUI(): the episode count written on the page.
episodesText(eps) == Len(eps)

\* The controls after train has called its episode-completion callback.
episodeCompletionCallback(run) ==
    IF run.callback = "updateUI" THEN updateUI(training) ELSE disabled

\* The interval callback of run r when the agent stands on the goal: the
\* timer is cleared, the episode sealed and resolved; train resumes, appends
\* it, calls the completion callback and goes round its loop.
EpisodeEnds(r) ==
    /\ r \in 1 .. Len(runs)
    /\ runs[r].interval
    /\ AtGoal(position)
    /\ \E t \in Clock, sp \in SpawnPoints(runs[r].spawnPointGenerator) :
          LET sealed  == Seal(runs[r], t).episode
              resumed == [Seal(runs[r], t) EXCEPT
                             !.i = @ + 1,
                             !.callbacks = IF runs[r].callback = "none" THEN @ ELSE @ + 1]
              next    == LoopStep(resumed, t, sp)
          IN  /\ now' = t
              /\ episodes' = Append(episodes, sealed)
              /\ runs' = [runs EXCEPT ![r] = next]
              /\ position' = ResetAgent(resumed, sp).position
              /\ spawn' = ResetAgent(resumed, sp).spawn
              /\ qTable' = ResetAgent(resumed, sp).qTable
              /\ AfterTrain(next, training, episodeCompletionCallback(resumed))
              /\ statEpisodes' = IF resumed.callback = "updateUI"
                                 THEN episodesText(Append(episodes, sealed))
                                 ELSE statEpisodes
    /\ UNCHANGED <<hyperVars, inputs, nDecisions, updated, harnessVars>>

\* The interval callback of run r anywhere else: one learn() step, whose
\* Decision is pushed on the run's episode.  u1 and u2 are what
\* Math.random() returns.
TimerLearns(r, u1, u2) ==
    /\ r \in 1 .. Len(runs)
    /\ runs[r].interval
    /\ ~AtGoal(position)
    /\ LET step == learn(u1, u2)
       IN  /\ position' = step.position
           /\ qTable' = step.qTable
           /\ runs' = [runs EXCEPT ![r].episode.decisions = Append(@, step.decision)]
           /\ updated' = updated \cup {<<StateKey(position), step.decision.action>>}
    /\ nDecisions' = nDecisions + 1
    /\ UNCHANGED <<spawn, episodes, hyperVars, now, inputs, uiVars, statEpisodes, task>>

\* A timer callback that learns, with any random draws, while the number
\* of Decisions is within its bound.
Decide(r) ==
    /\ nDecisions < MaxDecisions
    /\ \E u1 \in RandomDraws :
       \E u2 \in (IF Explores(u1) THEN RandomDraws ELSE {Zero}) :
          TimerLearns(r, u1, u2)
    /\ UNCHANGED harnessVars

\* ------------------------------------- the compiled application (part_000)

\* The values resetTraining writes into the five parameter fields.
DefaultForm ==
    [episodes         |-> <<"1", "0">>,
     decisionInterval |-> <<"5", "0">>,
     explorationRate  |-> <<"0", ".", "2">>,
     learningRate     |-> <<"0", ".", "1">>,
     discountFactor   |-> <<"0", ".", "9">>]

\* The texts a user is taken to type into the fields.
Forms ==
    {DefaultForm,
     [DefaultForm EXCEPT !.episodes = <<"1">>],
     [DefaultForm EXCEPT !.episodes = <<"0">>],
     [DefaultForm EXCEPT !.episodes = <<"a", "b", "c">>],
     [DefaultForm EXCEPT !.episodes = <<"1">>, !.explorationRate = <<"1", ".", "5">>],
     [DefaultForm EXCEPT !.episodes = <<"1">>, !.learningRate = <<"0">>],
     [DefaultForm EXCEPT !.episodes = <<"1">>, !.discountFactor = <<"-", "1">>]}

NoTask == [built |-> FALSE, rejected |-> FALSE, promise |-> "pending",
           episodes |-> NaN, decisionInterval |-> NaN]

Origin == [x |-> 0, y |-> 0]

\* The state once the script of part_000 has run: the agent is constructed,
\* nothing trains.
Init ==
    /\ position = Origin
    /\ spawn = Origin
    /\ episodes = <<>>
    /\ qTable = <<>>
    /\ explorationRate = Rat(2, 10)
    /\ learningRate = Rat(1, 10)
    /\ discountFactor = Rat(9, 10)
    /\ runs = <<>>
    /\ now = 0
    /\ inputs = DefaultForm
    /\ training = FALSE
    /\ disabled = updateUI(FALSE)
    /\ alertMsg = ""
    /\ consoleLog = ""
    /\ statEpisodes = -1
    /\ InitHarness
    /\ task = NoTask
    /\ nDecisions = 0
    /\ updated = {}

\* Whether startTraining's isNaN test rejects the parsed fields.
InvalidParameters(form) ==
    \/ isNaN(parseInt(form.episodes))
    \/ isNaN(parseInt(form.decisionInterval))
    \/ isNaN(parseFloat(form.explorationRate))
    \/ isNaN(parseFloat(form.learningRate))
    \/ isNaN(parseFloat(form.discountFactor))

\* startTraining of part_000, with the continuations of a train() that
\* settles at once; form holds the texts of the parameter fields.
startTraining(form) ==
    IF InvalidParameters(form)
    THEN /\ alertMsg' = "Please enter valid training parameters"
         /\ UNCHANGED <<aiVars, hyperVars, runs, now, training, disabled, consoleLog,
                        statEpisodes, task>>
    ELSE IF ~training
    THEN /\ Len(runs) < MaxRuns
         /\ \E t \in Clock :
               LET called  == train(parseInt(form.episodes), parseInt(form.decisionInterval),
                                    staticSpawnGenerator(Origin), "updateUI",
                                    "startTraining", t)
                   started == LoopStep(called, t, Origin)
               IN  /\ now' = t
                   /\ runs' = Append(runs, started)
                   /\ position' = ResetAgent(called, Origin).position
                   /\ spawn' = ResetAgent(called, Origin).spawn
                   /\ qTable' = ResetAgent(called, Origin).qTable
                   /\ AfterTrain(started, TRUE, updateUI(TRUE))
         /\ statEpisodes' = episodesText(episodes)
         /\ UNCHANGED <<episodes, hyperVars, nDecisions, updated>>
    ELSE UNCHANGED <<aiVars, hyperVars, runs, now, uiVars, statEpisodes, task>>

\* The user fills in the parameter fields (unless they are disabled) and
\* clicks the start button (unless it is disabled).  No handler listens to
\* the fields, so typing and the click are one step.
StartTraining ==
    /\ ~disabled.start
    /\ \E form \in (IF disabled.params THEN {inputs} ELSE Forms) :
          /\ inputs' = form
          /\ startTraining(form)
    /\ UNCHANGED harnessVars

\* resetTraining of part_000.
resetTraining ==
    /\ qTable' = <<>>
    /\ episodes' = <<>>
    /\ inputs' = DefaultForm
    /\ disabled' = updateUI(training)
    /\ statEpisodes' = episodesText(<<>>)
    /\ alertMsg' = "Training data has been reset"
    /\ updated' = {}
    /\ UNCHANGED <<position, spawn, hyperVars, runs, now, training, consoleLog, task,
                   nDecisions>>

\* A click on the reset button.
ResetTraining ==
    /\ ~disabled.reset
    /\ resetTraining
    /\ UNCHANGED harnessVars

Next ==
    \/ StartTraining
    \/ ResetTraining
    \/ \E r \in 1 .. Len(runs) : EpisodeEnds(r)
    \/ \E r \in 1 .. Len(runs) : Decide(r)

Spec == Init /\ [][Next]_vars

\* ---------------------------------------- the TypeScript draft (script.ts)

LoadEpisodes == 1000

LoadInterval == 1

\* The texts a user is taken to type into episodes-input and interval-input
\* of the draft (it reads no other field).
FormsTs ==
    {[DefaultForm EXCEPT !.episodes = <<"1">>],
     [DefaultForm EXCEPT !.episodes = <<"0">>],
     [DefaultForm EXCEPT !.episodes = <<"a", "b", "c">>]}

\* The state once script.ts has run: the agent is constructed and
\* ai.train(1000, 1, staticSpawnGenerator({x: 0, y: 0})) has started its
\* first episode.
InitTs ==
    /\ position = Origin
    /\ spawn = Origin
    /\ episodes = <<>>
    /\ qTable = <<>>
    /\ explorationRate = Rat(2, 10)
    /\ learningRate = Rat(1, 10)
    /\ discountFactor = Rat(9, 10)
    /\ now = 0
    /\ runs = <<LoopStep(train(RatOfInt(LoadEpisodes), RatOfInt(LoadInterval),
                               staticSpawnGenerator(Origin), "none", "load", 0), 0, Origin)>>
    /\ inputs = DefaultForm
    /\ training = FALSE
    /\ disabled = updateUI(FALSE)
    /\ alertMsg = ""
    /\ consoleLog = ""
    /\ statEpisodes = -1
    /\ InitHarness
    /\ task = NoTask
    /\ nDecisions = 0
    /\ updated = {}

\* ai.train(eps, decisionInterval, gen) of script.ts called by `caller`: the
\* run is appended and, unless its loop ends at once, the agent is moved to
\* the run's first spawn point.  A task's run hands its outcome to resolve.
TrainCall(eps, decisionInterval, gen, caller) ==
    /\ Len(runs) < MaxRuns
    /\ \E t \in Clock, sp \in SpawnPoints(gen) :
          LET called  == train(eps, decisionInterval, gen, "none", caller, t)
              started == LoopStep(called, t, sp)
          IN  /\ now' = t
              /\ runs' = Append(runs, started)
              /\ position' = ResetAgent(called, sp).position
              /\ spawn' = ResetAgent(called, sp).spawn
              /\ qTable' = ResetAgent(called, sp).qTable
              /\ task' = IF started.settled = "fulfilled" /\ caller = "task"
                         THEN [task EXCEPT !.promise = Settle(@, "fulfilled")]
                         ELSE task
    /\ UNCHANGED <<episodes, hyperVars, training, disabled, alertMsg, statEpisodes,
                   nDecisions, updated, harnessVars>>

\* startTraining of script.ts: the user fills in the two fields and starts a
\* training; nothing is validated and nothing guards the call.
StartTrainingTs ==
    \E form \in FormsTs :
       /\ consoleLog' = "Training started."
       /\ inputs' = form
       /\ TrainCall(parseInt(form.episodes), parseInt(form.decisionInterval),
                    randomSpawnGenerator, "click")

\* cancelTraining of script.ts only logs.
CancelTrainingTs ==
    /\ consoleLog' = "Training canceled."
    /\ UNCHANGED <<aiVars, hyperVars, runs, now, inputs, training, disabled, alertMsg,
                   statEpisodes, task, harnessVars>>

\* resetTraining of script.ts only logs.
ResetTrainingTs ==
    /\ consoleLog' = "Training reset."
    /\ UNCHANGED <<aiVars, hyperVars, runs, now, inputs, training, disabled, alertMsg,
                   statEpisodes, task, harnessVars>>

\* The episode counts of the trainings a task is built over.
TaskEpisodes == {0, 1}

\* buildCancellableTask(asyncFn), with asyncFn a training like the one
\* script.ts starts at load: () => ai.train(n, 1, staticSpawnGenerator({x: 0, y: 0})).
buildCancellableTask(eps, decisionInterval) ==
    [built |-> TRUE, rejected |-> FALSE, promise |-> "pending",
     episodes |-> eps, decisionInterval |-> decisionInterval]

BuildTask ==
    /\ ~task.built
    /\ \E n \in TaskEpisodes :
          task' = buildCancellableTask(RatOfInt(n), RatOfInt(LoadInterval))
    /\ UNCHANGED <<aiVars, hyperVars, runs, now, inputs, uiVars, statEpisodes, harnessVars>>

\* task.run(): unless the task was cancelled, asyncFn is called and its
\* outcome handed to resolve.
TaskRun ==
    /\ task.built
    /\ IF ~task.rejected
       THEN TrainCall(task.episodes, task.decisionInterval,
                      staticSpawnGenerator(Origin), "task")
       ELSE UNCHANGED <<aiVars, hyperVars, runs, now, training, disabled, alertMsg,
                        statEpisodes, task, harnessVars>>
    /\ UNCHANGED <<inputs, consoleLog>>

\* cancel that sets the flag and forgets to reject the promise.
cancelFlagOnly(tk) == [tk EXCEPT !.rejected = TRUE]

\* What task.cancel() leaves in the task.
cancel(tk) == [tk EXCEPT !.rejected = TRUE, !.promise = Settle(@, "rejected")]

TaskCancel ==
    /\ task.built
    /\ task' = cancel(task)
    /\ UNCHANGED <<aiVars, hyperVars, runs, now, inputs, uiVars, statEpisodes, harnessVars>>

\* script.ts as it stands: nothing in it builds a cancellable task.
NextTs ==
    \/ StartTrainingTs
    \/ CancelTrainingTs
    \/ ResetTrainingTs
    \/ \E r \in 1 .. Len(runs) : EpisodeEnds(r)
    \/ \E r \in 1 .. Len(runs) : Decide(r)

SpecTs == InitTs /\ [][NextTs]_vars

\* script.ts with its training started through buildCancellableTask, the
\* use the utility is there for.
NextTask ==
    \/ BuildTask
    \/ TaskRun
    \/ TaskCancel
    \/ \E r \in 1 .. Len(runs) : EpisodeEnds(r)
    \/ \E r \in 1 .. Len(runs) : Decide(r)

SpecTask == InitTs /\ [][NextTask]_vars

\* ------------------------------------------ a training run to its end

\* The episode counts of the training that is run to its end.
LiveEpisodes == {1, 2}

\* A bound on the Decisions of a training that no training reaches.
LiveCap == 16 * width * height

\* The agent script.ts constructs, and one ai.train(n, 1, generator) called
\* on it, with a constant spawn point anywhere in the grid.
InitLive ==
    /\ \E n \in LiveEpisodes :
       \E gen \in {staticSpawnGenerator(p) : p \in Positions} :
       \E sp \in SpawnPoints(gen) :
          /\ position = sp
          /\ spawn = sp
          /\ runs = <<LoopStep(train(RatOfInt(n), RatOfInt(LoadInterval), gen,
                                     "none", "harness", 0), 0, sp)>>
    /\ episodes = <<>>
    /\ qTable = <<>>
    /\ explorationRate = Rat(2, 10)
    /\ learningRate = Rat(1, 10)
    /\ discountFactor = Rat(9, 10)
    /\ now = 0
    /\ inputs = DefaultForm
    /\ training = FALSE
    /\ disabled = updateUI(FALSE)
    /\ alertMsg = ""
    /\ consoleLog = ""
    /\ statEpisodes = -1
    /\ task = NoTask
    /\ nDecisions = 0
    /\ updated = {}
    /\ InitHarness

\* A timer callback that learns: Math.random() explores at most
\* MaxExplores times in a behaviour, and exploits from then on.
DecideLive(r) ==
    /\ nDecisions < LiveCap
    /\ \E u1 \in (IF nExplores < MaxExplores THEN RandomDraws ELSE ExploitDraws) :
       \E u2 \in (IF Explores(u1) THEN RandomDraws ELSE {Zero}) :
          /\ TimerLearns(r, u1, u2)
          /\ nExplores' = IF Explores(u1) THEN nExplores + 1 ELSE nExplores
    /\ UNCHANGED <<tape, heap, refs, ai2>>

\* The interval timer of a running episode fires.
TimerFires == \E r \in 1 .. Len(runs) : EpisodeEnds(r) \/ DecideLive(r)

NextLive ==
    \/ \E r \in 1 .. Len(runs) : EpisodeEnds(r)
    \/ \E r \in 1 .. Len(runs) : DecideLive(r)

\* A timer is set whose callback can run: the enabling condition of
\* TimerFires.
TimerSet ==
    \E r \in 1 .. Len(runs) :
       runs[r].interval /\ (AtGoal(position) \/ nDecisions < LiveCap)

\* setInterval keeps firing until clearInterval: WF_vars(TimerFires), with
\* its enabling condition written out.
TimerFairness == []<>(~TimerSet) \/ []<><<TimerFires>>_vars

SpecLive == InitLive /\ [][NextLive]_vars /\ TimerFairness

\* ------------------------- the same training twice (compiled application)

\* A first click on start: the training whose draws are recorded.
StartFirst ==
    /\ tape.phase = 0
    /\ ~disabled.start
    /\ \E form \in Forms :
          /\ inputs' = form
          /\ startTraining(form)
          /\ tape' = IF Len(runs') > Len(runs)
                     THEN [tape EXCEPT !.phase = 1, !.form = form]
                     ELSE tape
    /\ UNCHANGED <<nExplores, heap, refs, ai2>>

\* A timer callback of the first training learns; its draws go on the tape.
DecideFirst(r) ==
    /\ tape.phase = 1
    /\ nDecisions < MaxDecisions
    /\ \E u1 \in RandomDraws :
       \E u2 \in (IF Explores(u1) THEN RandomDraws ELSE {Zero}) :
          /\ TimerLearns(r, u1, u2)
          /\ tape' = [tape EXCEPT !.draws = Append(@, <<u1, u2>>)]
    /\ UNCHANGED <<nExplores, heap, refs, ai2>>

\* The first training has returned: its table and history are noted and a
\* click on reset empties them.
ResetBetween ==
    /\ tape.phase = 1
    /\ ~disabled.reset
    /\ resetTraining
    /\ tape' = [tape EXCEPT !.phase = 2, !.qTable = qTable, !.episodes = episodes]
    /\ UNCHANGED <<nExplores, heap, refs, ai2>>

\* A second click on start, with the fields as they were for the first.
StartSecond ==
    /\ tape.phase = 2
    /\ ~disabled.start
    /\ inputs' = tape.form
    /\ startTraining(tape.form)
    /\ tape' = [tape EXCEPT !.phase = 3]
    /\ UNCHANGED <<nExplores, heap, refs, ai2>>

\* A timer callback of the second training learns, Math.random() returning
\* what it returned to the first.
DecideSecond(r) ==
    /\ tape.phase = 3
    /\ tape.cursor <= Len(tape.draws)
    /\ TimerLearns(r, tape.draws[tape.cursor][1], tape.draws[tape.cursor][2])
    /\ tape' = [tape EXCEPT !.cursor = @ + 1]
    /\ UNCHANGED <<nExplores, heap, refs, ai2>>

NextTwice ==
    \/ StartFirst
    \/ \E r \in 1 .. Len(runs) : DecideFirst(r)
    \/ ResetBetween
    \/ StartSecond
    \/ \E r \in 1 .. Len(runs) : DecideSecond(r)
    \/ \E r \in 1 .. Len(runs) : EpisodeEnds(r)

SpecTwice == Init /\ [][NextTwice]_vars

\* ------------------------------------------- Position objects by identity

\* Everything but the objects.
programVars == <<aiVars, hyperVars, runs, now, inputs, uiVars, statEpisodes, task,
                 nExplores, tape, ai2>>

\* The objects some holder refers to.
Reachable(r) ==
    {r.goal, r.position, r.spawn, r.generator} \cup {r.decisions[i] : i \in 1 .. Len(r.decisions)}

\* Heap h without the objects nothing refers to (their identities are free
\* again).
Collect(h, r) == [id \in DOMAIN h \cap Reachable(r) |-> h[id]]

\* Decisions recorded before the exploration of objects stops.
MaxRecorded == 2 * MaxDecisions

\* An identity no object of h has.
FreshRef(h) ==
    CHOOSE n \in 1 .. Cardinality(DOMAIN h) + 1 :
       n \notin DOMAIN h /\ \A m \in 1 .. n - 1 : m \in DOMAIN h

\* `{ ...obj }` that hands back obj itself in place of a copy.
SpreadShares(h, id) == [heap |-> h, ref |-> id]

\* `{ ...obj }`: a new object with the fields of object id.
Spread(h, id) ==
    [heap |-> [n \in DOMAIN h \cup {FreshRef(h)} |-> IF n \in DOMAIN h THEN h[n] ELSE h[id]],
     ref  |-> FreshRef(h)]

\* The script up to a train call with a constant spawn point anywhere.
InitRefs ==
    /\ Init
    /\ \E pos \in Positions :
          /\ heap = ObjectsAtLoad(pos).heap
          /\ refs = ObjectsAtLoad(pos).refs

\* The top of train's loop: this.spawn = { ...spawnPointGenerator() } and
\* this.position = { ...this.spawn }, at the call and after each episode.
RefsLoopTop ==
    /\ ~refs.started \/ AtGoal(heap[refs.position])
    /\ LET s1   == Spread(heap, refs.generator)
           s2   == Spread(s1.heap, s1.ref)
           next == [refs EXCEPT !.spawn = s1.ref, !.position = s2.ref, !.started = TRUE]
       IN  /\ refs' = next
           /\ heap' = Collect(s2.heap, next)
    /\ UNCHANGED programVars

\* learn() with action a: oldPosition = { ...this.position }, commitAction
\* writes into the object this.position refers to, and the Decision holds
\* { ...this.position }.
RefsLearn(a) ==
    /\ refs.started
    /\ ~AtGoal(heap[refs.position])
    /\ Len(refs.decisions) < MaxRecorded
    /\ LET old   == Spread(heap, refs.position)
           moved == [old.heap EXCEPT ![refs.position] = commitAction(@, a)]
           d     == Spread(moved, refs.position)
           next  == [refs EXCEPT !.decisions = Append(@, d.ref)]
       IN  /\ refs' = next
           /\ heap' = Collect(d.heap, next)
    /\ UNCHANGED programVars

NextRefs ==
    \/ RefsLoopTop
    \/ \E a \in ActionSet : RefsLearn(a)

SpecRefs == InitRefs /\ [][NextRefs]_vars

\* ------------------------------------------------ a second agent, ai2

\* ai2.train(n, 1, staticSpawnGenerator(pos)): the loop's first pass puts
\* ai2 (`this`) on the spawn point and starts the first episode.
TrainOther(n, pos) ==
    /\ ai2.runs = <<>>
    /\ \E t \in Clock :
          LET called  == train(RatOfInt(n), RatOfInt(LoadInterval),
                               staticSpawnGenerator(pos), "none", "ai2", t)
              started == LoopStep(called, t, pos)
          IN  /\ now' = t
              /\ ai2' = [ai2 EXCEPT !.runs = <<started>>,
                                    !.position = IF LoopContinues(called) THEN pos ELSE @,
                                    !.spawn = IF LoopContinues(called) THEN pos ELSE @]
    /\ UNCHANGED <<aiVars, hyperVars, runs, inputs, uiVars, statEpisodes, task,
                   nExplores, tape, heap, refs>>

\* The timer of an episode of ai2 finds `ai` off the goal: ai.learn(), and
\* the Decision goes into ai2's episode.
OtherDecide ==
    /\ ai2.runs # <<>>
    /\ ai2.runs[1].interval
    /\ ~AtGoal(position)
    /\ nDecisions < MaxDecisions
    /\ \E u1 \in RandomDraws :
       \E u2 \in (IF Explores(u1) THEN RandomDraws ELSE {Zero}) :
          LET step == learn(u1, u2)
          IN  /\ position' = step.position
              /\ qTable' = step.qTable
              /\ ai2' = [ai2 EXCEPT !.runs[1].episode.decisions = Append(@, step.decision)]
              /\ updated' = updated \cup {<<StateKey(position), step.decision.action>>}
    /\ nDecisions' = nDecisions + 1
    /\ UNCHANGED <<spawn, episodes, hyperVars, runs, now, inputs, uiVars, statEpisodes,
                   task, nExplores, tape, heap, refs>>

\* The timer of an episode of ai2 finds `ai` at the goal: the episode is
\* sealed and pushed to ai2.episodes, and the loop's next pass respawns ai2.
OtherEpisodeEnds ==
    /\ ai2.runs # <<>>
    /\ ai2.runs[1].interval
    /\ AtGoal(position)
    /\ \E t \in Clock, sp \in SpawnPoints(ai2.runs[1].spawnPointGenerator) :
          LET sealed  == Seal(ai2.runs[1], t).episode
              resumed == [Seal(ai2.runs[1], t) EXCEPT !.i = @ + 1]
              next    == LoopStep(resumed, t, sp)
          IN  /\ now' = t
              /\ ai2' = [ai2 EXCEPT !.runs = <<next>>,
                                    !.episodes = Append(@, sealed),
                                    !.position = IF LoopContinues(resumed) THEN sp ELSE @,
                                    !.spawn = IF LoopContinues(resumed) THEN sp ELSE @]
    /\ UNCHANGED <<aiVars, hyperVars, runs, inputs, uiVars, statEpisodes, task,
                   nExplores, tape, heap, refs>>

\* The draft script with its training of `ai` under way, and a second agent
\* constructed in the same world.
NextTwo ==
    \/ \E n \in LiveEpisodes, pos \in Positions : TrainOther(n, pos)
    \/ OtherDecide
    \/ OtherEpisodeEnds
    \/ \E r \in 1 .. Len(runs) : EpisodeEnds(r)
    \/ \E r \in 1 .. Len(runs) : Decide(r)

SpecTwo == InitTs /\ [][NextTwo]_vars

\* ------------------------------------- an agent that never explores

\* new QLearningAI(world, {explorationRate: 0, learningRate: 0.1,
\* discountFactor: 0.9}) and one train(n, 1, generator) called on it, with a
\* constant spawn point anywhere in the grid.
InitScenario ==
    /\ \E n \in LiveEpisodes :
       \E gen \in {staticSpawnGenerator(p) : p \in Positions} :
       \E sp \in SpawnPoints(gen) :
          /\ position = sp
          /\ spawn = sp
          /\ runs = <<LoopStep(train(RatOfInt(n), RatOfInt(LoadInterval), gen,
                                     "none", "harness", 0), 0, sp)>>
    /\ episodes = <<>>
    /\ qTable = <<>>
    /\ explorationRate = Zero
    /\ learningRate = Rat(1, 10)
    /\ discountFactor = Rat(9, 10)
    /\ now = 0
    /\ inputs = DefaultForm
    /\ training = FALSE
    /\ disabled = updateUI(FALSE)
    /\ alertMsg = ""
    /\ consoleLog = ""
    /\ statEpisodes = -1
    /\ task = NoTask
    /\ nDecisions = 0
    /\ updated = {}
    /\ InitHarness

\* A timer callback that learns, whatever Math.random() returns.
DecideScenario(r) ==
    /\ nDecisions < LiveCap
    /\ \E u1 \in RandomDraws :
       \E u2 \in (IF Explores(u1) THEN RandomDraws ELSE {Zero}) :
          TimerLearns(r, u1, u2)
    /\ UNCHANGED harnessVars

NextScenario ==
    \/ \E r \in 1 .. Len(runs) : EpisodeEnds(r)
    \/ \E r \in 1 .. Len(runs) : DecideScenario(r)

SpecScenario == InitScenario /\ [][NextScenario]_vars

\* ------------------- the compiled application with a failing callback

\* What train is given as its episode-completion callback: updateUI, or a
\* function whose call throws (as does the call of a missing callback).
Callbacks == {"updateUI", "throws"}

\* startTraining of part_000 with callback as the fourth argument of
\* ai.train.
startTrainingCallback(form, callback) ==
    IF InvalidParameters(form)
    THEN /\ alertMsg' = "Please enter valid training parameters"
         /\ UNCHANGED <<aiVars, hyperVars, runs, now, training, disabled, consoleLog,
                        statEpisodes, task>>
    ELSE IF ~training
    THEN /\ Len(runs) < MaxRuns
         /\ \E t \in Clock :
               LET called  == train(parseInt(form.episodes), parseInt(form.decisionInterval),
                                    staticSpawnGenerator(Origin), callback,
                                    "startTraining", t)
                   started == LoopStep(called, t, Origin)
               IN  /\ now' = t
                   /\ runs' = Append(runs, started)
                   /\ position' = ResetAgent(called, Origin).position
                   /\ spawn' = ResetAgent(called, Origin).spawn
                   /\ qTable' = ResetAgent(called, Origin).qTable
                   /\ AfterTrain(started, TRUE, updateUI(TRUE))
         /\ statEpisodes' = episodesText(episodes)
         /\ UNCHANGED <<episodes, hyperVars, nDecisions, updated>>
    ELSE UNCHANGED <<aiVars, hyperVars, runs, now, uiVars, statEpisodes, task>>

\* A click on the start button.
StartTrainingCallback ==
    /\ ~disabled.start
    /\ \E form \in (IF disabled.params THEN {inputs} ELSE Forms), callback \in Callbacks :
          /\ inputs' = form
          /\ startTrainingCallback(form, callback)
    /\ UNCHANGED harnessVars

\* The interval callback of run r when the agent stands on the goal and the
\* run's completion callback throws: the episode is sealed, resolved and
\* pushed, the call throws inside the async executor of train, whose
\* rejection nothing observes: resolve is never called, the promise of train
\* stays pending and neither then nor catch of startTraining runs.
EpisodeEndsThrows(r) ==
    /\ r \in 1 .. Len(runs)
    /\ runs[r].interval
    /\ runs[r].callback = "throws"
    /\ AtGoal(position)
    /\ \E t \in Clock :
          /\ now' = t
          /\ episodes' = Append(episodes, Seal(runs[r], t).episode)
          /\ runs' = [runs EXCEPT ![r] = Seal(runs[r], t)]
    /\ UNCHANGED <<position, spawn, qTable, hyperVars, inputs, uiVars, statEpisodes, task,
                   nDecisions, updated, harnessVars>>

NextCallback ==
    \/ StartTrainingCallback
    \/ ResetTraining
    \/ \E r \in 1 .. Len(runs) : runs[r].callback # "throws" /\ EpisodeEnds(r)
    \/ \E r \in 1 .. Len(runs) : EpisodeEndsThrows(r)
    \/ \E r \in 1 .. Len(runs) : Decide(r)

SpecCallback == Init /\ [][NextCallback]_vars

\* --------------------------- agents of other learning and discount rates

\* The learning rates an agent is constructed with: in (0, 1].
LearningRates == {Rat(1, 2), RatOfInt(1)}

\* The discount factors an agent is constructed with: in [0, 1].
DiscountFactors == {Zero, RatOfInt(1)}

\* The episode counts of their trainings.
RatesEpisodes == {1, 3}

\* new QLearningAI(world, {explorationRate: 0.2, learningRate, discountFactor})
\* and one train(n, 1, generator) called on it, with a constant spawn point
\* anywhere in the grid.
InitRates ==
    /\ \E n \in RatesEpisodes :
       \E gen \in {staticSpawnGenerator(p) : p \in Positions} :
       \E sp \in SpawnPoints(gen) :
          /\ position = sp
          /\ spawn = sp
          /\ runs = <<LoopStep(train(RatOfInt(n), RatOfInt(LoadInterval), gen,
                                     "none", "harness", 0), 0, sp)>>
    /\ episodes = <<>>
    /\ qTable = <<>>
    /\ explorationRate = Rat(2, 10)
    /\ learningRate \in LearningRates
    /\ discountFactor \in DiscountFactors
    /\ now = 0
    /\ inputs = DefaultForm
    /\ training = FALSE
    /\ disabled = updateUI(FALSE)
    /\ alertMsg = ""
    /\ consoleLog = ""
    /\ statEpisodes = -1
    /\ task = NoTask
    /\ nDecisions = 0
    /\ updated = {}
    /\ InitHarness

SpecRates == InitRates /\ [][NextLive]_vars

\* ----------------------------------------------------------------- claims

Last(seq) == seq[Len(seq)]

\* The step is a learn() of run r: its episode has one Decision more.
LearnStepOf(r) ==
    /\ r \in 1 .. Len(runs)
    /\ Len(runs') = Len(runs)
    /\ Len(runs'[r].episode.decisions) = Len(runs[r].episode.decisions) + 1

\* The Q-value a table holds for a cell and an action, 0 when absent.
QAt(table, pos, a) ==
    IF StateKey(pos) \in DOMAIN table THEN table[StateKey(pos)][a] ELSE Zero

\* The largest of Q(pos, .) over the four actions.
MaxQAt(table, pos) ==
    CHOOSE m \in {QAt(table, pos, a) : a \in ActionSet} :
        \A a \in ActionSet : ~RatLess(m, QAt(table, pos, a))

\* C1: a learn step from state s with action a into state s' sets Q(s, a) to
\* currentQ + learningRate * (r + discountFactor * maxNextQ - currentQ), with
\* currentQ = Q(s, a) before the step, r the reward of s' and maxNextQ the
\* maximum of Q(s', .) over the four actions.
C1_QLearningUpdate ==
    [][\A r \in 1 .. Len(runs) :
          LearnStepOf(r) =>
             LET a        == Last(runs'[r].episode.decisions).action
                 currentQ == QAt(qTable, position, a)
                 reward   == Last(runs'[r].episode.decisions).reward
                 maxNextQ == MaxQAt(qTable, position')
             IN  /\ Last(runs'[r].episode.decisions).position = position'
                 /\ QAt(qTable', position, a) =
                       RatAdd(currentQ,
                              RatMul(learningRate,
                                     RatSub(RatAdd(reward, RatMul(discountFactor, maxNextQ)),
                                            currentQ)))]_vars

\* C1 witness: a Q-value of the origin is positive, which takes an update
\* that started from a non-zero currentQ and bootstrapped from a learned,
\* non-zero maxNextQ (every reward around the origin is negative).
C1_Witness ==
    \E a \in ActionSet : RatLess(Zero, getQValue(StateKey(Origin), a))

\* C2: applying any action to any in-bounds position yields an in-bounds
\* position, and the agent, its spawn point and every recorded Decision are
\* always inside the grid.
C2_Clamping ==
    /\ \A p \in Positions, a \in ActionSet : commitAction(p, a) \in Positions
    /\ position \in Positions
    /\ spawn \in Positions
    /\ \A r \in 1 .. Len(runs) :
          \A i \in 1 .. Len(runs[r].episode.decisions) :
             runs[r].episode.decisions[i].position \in Positions

\* C2 witness: the agent has bumped into the far wall: a RIGHT decision
\* taken on the last column left it on the last column.
C2_Witness ==
    \E r \in 1 .. Len(runs) :
       \E i \in 2 .. Len(runs[r].episode.decisions) :
          /\ runs[r].episode.decisions[i].action = "RIGHT"
          /\ runs[r].episode.decisions[i].position.x = width - 1
          /\ runs[r].episode.decisions[i - 1].position.x = width - 1

\* C3: every episode of the training history ends with a Decision on the
\* goal and has no earlier Decision on the goal (an episode without any
\* Decision is taken to satisfy this).
C3_SingleTermination ==
    \A e \in 1 .. Len(episodes) :
       LET ds == episodes[e].decisions
       IN  ds # <<>> =>
              /\ AtGoal(Last(ds).position)
              /\ \A j \in 1 .. Len(ds) - 1 : ~AtGoal(ds[j].position)

\* The runs whose train() has not settled yet.
ActiveRuns == {r \in 1 .. Len(runs) : runs[r].settled = "pending"}

\* C4: at no time are two training runs active against the agent.
C4_OneRunAtATime == Cardinality(ActiveRuns) <= 1

\* C5: once the task is cancelled, the run it started takes no further
\* step: no Decision, no sealed episode, no new episode.
C5_CancelStopsRun ==
    [][\A r \in 1 .. Len(runs) :
          (task.rejected /\ runs[r].caller = "task") => runs'[r] = runs[r]]_vars

\* C6: cancel() on a task whose promise is still pending (before run(), or
\* after run() and before the training finishes) rejects the promise, and
\* a rejected promise stays rejected whatever the training does afterwards.
C6_CancelledIsRejected ==
    [][/\ (task.built /\ ~task.rejected /\ task'.rejected /\ task.promise = "pending")
             => task'.promise = "rejected"
       /\ task.promise = "rejected" => task'.promise = "rejected"]_vars

\* C6 witness: the promise is rejected although a training started by the
\* task has run to completion.
C6_Witness ==
    /\ task.promise = "rejected"
    /\ \E r \in 1 .. Len(runs) :
          runs[r].caller = "task" /\ runs[r].settled = "fulfilled" /\ runs[r].i = 1

\* Whether v lies in the closed interval [lo, hi] of JavaScript numbers.
InClosed(v, lo, hi) == ~isNaN(v) /\ ~RatLess(v, lo) /\ ~RatLess(hi, v)

\* A configuration error: a non-numeric field, explorationRate outside
\* [0,1], learningRate outside (0,1], discountFactor outside [0,1], or a
\* non-positive episode count.
ConfigError(form) ==
    \/ isNaN(parseInt(form.episodes))
    \/ isNaN(parseInt(form.decisionInterval))
    \/ ~RatLess(Zero, parseInt(form.episodes))
    \/ ~InClosed(parseFloat(form.explorationRate), Zero, RatOfInt(1))
    \/ ~InClosed(parseFloat(form.learningRate), Zero, RatOfInt(1))
    \/ parseFloat(form.learningRate) = Zero
    \/ ~InClosed(parseFloat(form.discountFactor), Zero, RatOfInt(1))

\* C7: with a configuration error in the fields, a click on start leaves the
\* training flag false, no run active, and the table, the agent's position
\* and the history as they were.
C7_ConfigErrorStartsNothing ==
    [][((StartTraining \/ StartTrainingTs) /\ ConfigError(inputs')) =>
          /\ ~training'
          /\ \A r \in 1 .. Len(runs') : runs'[r].settled # "pending"
          /\ qTable' = qTable
          /\ position' = position
          /\ episodes' = episodes]_vars

\* The step starts an episode: a train() is called, or a run goes round its
\* loop.
EpisodeStarts ==
    \/ Len(runs') > Len(runs)
    \/ \E r \in 1 .. Len(runs) : runs'[r].i > runs[r].i

\* C8: the start of an episode or of a training run leaves every Q-table
\* entry as it was.
C8_TablePersists ==
    [][EpisodeStarts =>
          \A p \in Positions, a \in ActionSet : QAt(qTable', p, a) = QAt(qTable, p, a)]_vars

\* C8 witness: a second train() invocation has taken a Decision with the
\* table the first one filled.
C8_Witness ==
    /\ Len(runs) = 2
    /\ runs[1].settled = "fulfilled"
    /\ runs[1].i > 0
    /\ Len(runs[2].episode.decisions) > 0
    /\ Cardinality(DOMAIN qTable) > 1

\* C9: after a click on reset (resetTraining of either build) every
\* (state, action) reads 0.
C9_ResetReadsZero ==
    [][(ResetTraining \/ ResetTrainingTs) =>
          \A p \in Positions, a \in ActionSet : QAt(qTable', p, a) = Zero]_vars

\* C10: a (state, action) pair that no update has written reads 0, the
\* other actions of a row created by its first write included.
C10_LazyZero ==
    \A p \in Positions, a \in ActionSet :
       <<StateKey(p), a>> \notin updated => getQValue(StateKey(p), a) = Zero

\* C10 witness: a row exists of which only some actions were written.
C10_Witness ==
    \E p \in Positions, a \in ActionSet, b \in ActionSet :
       /\ StateKey(p) \in DOMAIN qTable
       /\ <<StateKey(p), a>> \in updated
       /\ <<StateKey(p), b>> \notin updated

\* The place of an action in the enumeration order UP, DOWN, LEFT, RIGHT.
IndexOf(a) == CHOOSE i \in 1 .. Len(actions) : actions[i] = a

\* What chooseAction returns at position pos when it exploits.
bestAction(pos) == ReduceBest(StateKey(pos), actions[1], 1)

\* C11: when the policy exploits, at every cell and with every reachable
\* table the action it returns has the greatest Q-value of the four, and
\* every action before it in the order UP, DOWN, LEFT, RIGHT has a strictly
\* smaller one; the action chooseAction returns for the agent's cell with a
\* draw that does not explore is that action.
C11_ExploitTieBreak ==
    /\ \A p \in Positions :
          /\ \A a \in ActionSet :
                ~RatLess(getQValue(StateKey(p), bestAction(p)), getQValue(StateKey(p), a))
          /\ \A a \in ActionSet :
                IndexOf(a) < IndexOf(bestAction(p)) =>
                   RatLess(getQValue(StateKey(p), a), getQValue(StateKey(p), bestAction(p)))
    /\ \A u \in ExploitDraws : chooseAction(u, Zero) = bestAction(position)

\* C11 witness: UP has been learned to be worse, the other three actions
\* tie at the maximum, and the policy exploits DOWN.
C11_Witness ==
    \E p \in Positions :
       /\ RatLess(getQValue(StateKey(p), "UP"), getQValue(StateKey(p), "DOWN"))
       /\ getQValue(StateKey(p), "DOWN") = getQValue(StateKey(p), "LEFT")
       /\ getQValue(StateKey(p), "LEFT") = getQValue(StateKey(p), "RIGHT")
       /\ bestAction(p) = "DOWN"
       /\ p = position

\* C12: the reward is exactly +100 at the goal and -(Manhattan distance)/10
\* elsewhere, which is at most 0 and strictly greater at a strictly smaller
\* distance; every recorded Decision carries the reward and the distance of
\* its position.
C12_Reward ==
    /\ \A p \in Positions :
          IF AtGoal(p)
          THEN RewardAt(p) = RatOfInt(100)
          ELSE /\ RewardAt(p) = Rat(-manhattanDistanceToGoal(p), 10)
               /\ ~RatLess(Zero, RewardAt(p))
    /\ \A p \in Positions, q \in Positions :
          (~AtGoal(p) /\ ~AtGoal(q) /\ manhattanDistanceToGoal(p) < manhattanDistanceToGoal(q))
             => RatLess(RewardAt(q), RewardAt(p))
    /\ \A r \in 1 .. Len(runs) : \A i \in 1 .. Len(runs[r].episode.decisions) :
          LET d == runs[r].episode.decisions[i]
          IN  /\ d.reward = (IF AtGoal(d.position) THEN RatOfInt(100)
                             ELSE Rat(-manhattanDistanceToGoal(d.position), 10))
              /\ d.distanceToGoal = manhattanDistanceToGoal(d.position)

\* C12 witness: an episode whose Decisions earned -2/10 at distance 2, then
\* -1/10 at distance 1, then +100 on the goal.
C12_Witness ==
    \E r \in 1 .. Len(runs) :
       LET ds == runs[r].episode.decisions
       IN  /\ Len(ds) = 3
           /\ ds[1].reward = Rat(-2, 10) /\ ds[1].distanceToGoal = 2
           /\ ds[2].reward = Rat(-1, 10) /\ ds[2].distanceToGoal = 1
           /\ ds[3].reward = RatOfInt(100) /\ AtGoal(ds[3].position)

\* The move of action a on one coordinate.
Delta(a) ==
    CASE a = "UP"    -> [x |-> 0, y |-> -1]
      [] a = "DOWN"  -> [x |-> 0, y |-> 1]
      [] a = "LEFT"  -> [x |-> -1, y |-> 0]
      [] a = "RIGHT" -> [x |-> 1, y |-> 0]

\* Action a at p runs into a boundary of the grid.
IntoBoundary(p, a) ==
    \/ a = "UP" /\ p.y = 0
    \/ a = "DOWN" /\ p.y = height - 1
    \/ a = "LEFT" /\ p.x = 0
    \/ a = "RIGHT" /\ p.x = width - 1

\* Where action a leads from p according to C13.
MoveOf(p, a) ==
    IF IntoBoundary(p, a) THEN p ELSE [x |-> p.x + Delta(a).x, y |-> p.y + Delta(a).y]

\* C13: UP/DOWN change only y by -1/+1 and LEFT/RIGHT only x by -1/+1, a
\* move into a boundary leaves the position as it was; this holds of
\* commitAction at every cell and of every learn step the agent takes.
C13_OneCoordinate ==
    [][/\ \A p \in Positions, a \in ActionSet : commitAction(p, a) = MoveOf(p, a)
       /\ \A r \in 1 .. Len(runs) :
             LearnStepOf(r) =>
                position' = MoveOf(position, Last(runs'[r].episode.decisions).action)]_vars

\* C13 witness: the agent has taken a LEFT into the left wall and stayed,
\* and then a DOWN that changed y alone.
C13_Witness ==
    \E r \in 1 .. Len(runs) :
       LET ds == runs[r].episode.decisions
       IN  /\ Len(ds) >= 2
           /\ ds[1].action = "LEFT" /\ ds[1].position = [x |-> 0, y |-> 0]
           /\ ds[2].action = "DOWN" /\ ds[2].position = [x |-> 0, y |-> 1]

\* C14: an episode whose spawn point is the goal cell takes no Decision:
\* its decision sequence is empty while it runs and when it is sealed, its
\* end time, once set, is not before its start time, and no timer callback
\* of it changes the agent's position or the table.
C14_SpawnAtGoal ==
    [][\A r \in 1 .. Len(runs) :
          (runs[r].interval /\ AtGoal(runs[r].spawnPoint)) =>
             /\ runs[r].episode.decisions = <<>>
             /\ ~LearnStepOf(r)
             /\ runs'[r].i > runs[r].i =>
                   /\ Last(episodes').decisions = <<>>
                   /\ Last(episodes').endTime >= Last(episodes').startTime]_vars

\* Run r's train() resumes after an episode: its loop counter goes up.
EpisodeAppendedBy(r) ==
    /\ r \in 1 .. Len(runs)
    /\ Len(runs') = Len(runs)
    /\ runs'[r].i = runs[r].i + 1

TraceOf(e) == e.decisions

\* Sequence s is a prefix of sequence t.
IsPrefix(s, t) == Len(s) <= Len(t) /\ \A i \in 1 .. Len(s) : s[i] = t[i]

Unaliased(r) ==
    /\ Cardinality({r.goal, r.position, r.spawn, r.generator}) = 4
    /\ \A i \in 1 .. Len(r.decisions) :
          /\ r.decisions[i] \notin {r.goal, r.position, r.spawn, r.generator}
          /\ \A j \in 1 .. Len(r.decisions) : i # j => r.decisions[i] # r.decisions[j]

\* C18: the goal, the agent's position, its spawn point, the object of the
\* constant spawn generator and the position of every recorded Decision are
\* different objects; a move changes none of them but the agent's position,
\* and every pass of train's loop spawns the agent on the generator's cell,
\* which never changes.
C18_NoAliasing ==
    [][/\ Unaliased(refs)
       /\ Unaliased(refs')
       /\ heap'[refs'.goal] = goal
       /\ heap'[refs'.generator] = heap[refs.generator]
       /\ \A i \in 1 .. Len(refs.decisions) :
             /\ refs'.decisions[i] = refs.decisions[i]
             /\ heap'[refs'.decisions[i]] = heap[refs.decisions[i]]
       /\ Len(refs'.decisions) > Len(refs.decisions) =>
             /\ heap'[refs'.spawn] = heap[refs.spawn]
             /\ heap'[Last(refs'.decisions)] = heap'[refs'.position]
       /\ Len(refs'.decisions) = Len(refs.decisions) =>
             /\ heap'[refs'.spawn] = heap[refs.generator]
             /\ heap'[refs'.position] = heap[refs.generator]]_vars

\* C18 witness: in a second episode the agent has moved off its spawn
\* point, which still is the generator's cell, and the Decisions recorded so
\* far hold three different positions.
C18_Witness ==
    /\ Len(refs.decisions) = 3
    /\ AtGoal(heap[refs.decisions[2]])
    /\ heap[refs.position] # heap[refs.spawn]
    /\ heap[refs.spawn] = heap[refs.generator]
    /\ Cardinality({heap[refs.decisions[i]] : i \in 1 .. 3}) = 3

\* C19: an episode is sealed once and frozen afterwards: while its timer is
\* set its end time is -1; the end time is stamped by the tick that finds
\* the agent at the goal, which also clears the timer; from then on the
\* episode keeps its Decisions and its times, in the run and in the
\* agent's history, and only a running episode ever gets a Decision.
C19_SealedOnce ==
    [][/\ \A r \in 1 .. Len(runs) :
             /\ runs[r].interval => runs[r].episode.endTime = -1
             /\ Len(runs') >= r =>
                   /\ ~runs[r].interval /\ runs[r].settled # "pending" =>
                         /\ ~runs'[r].interval
                         /\ runs'[r].episode = runs[r].episode
                   /\ runs'[r].episode.endTime # runs[r].episode.endTime /\ runs[r].interval =>
                         /\ AtGoal(position)
                         /\ episodes' = Append(episodes, [runs[r].episode EXCEPT !.endTime = now'])
                         /\ \/ ~runs'[r].interval /\ runs'[r].episode = Last(episodes')
                            \/ runs'[r].interval /\ runs'[r].episode.decisions = <<>>
                   /\ runs'[r].episode.decisions # runs[r].episode.decisions =>
                         /\ runs[r].interval
                         /\ \/ Len(episodes') = Len(episodes) + 1
                            \/ /\ ~AtGoal(position)
                               /\ IsPrefix(runs[r].episode.decisions, runs'[r].episode.decisions)
                               /\ runs'[r].episode.endTime = -1
       /\ \A i \in 1 .. Len(episodes) :
             /\ episodes[i].endTime # -1
             /\ episodes[i].endTime >= episodes[i].startTime
             /\ Len(episodes') >= i => episodes'[i] = episodes[i]]_vars

\* C19 witness: one episode of two Decisions is sealed in the history, and
\* the next episode of the same run has taken a Decision since.
C19_Witness ==
    /\ Len(episodes) = 1
    /\ Len(episodes[1].decisions) = 2
    /\ \E r \in 1 .. Len(runs) :
          /\ runs[r].interval
          /\ runs[r].i = 1
          /\ Len(runs[r].episode.decisions) = 1

\* C20: two agents of one world do not interfere: a step of a train call
\* of ai2 leaves the position and the Q-table of ai as they are, and a step
\* of a train call of ai leaves those of ai2 as they are.
C20_AgentsIndependent ==
    [][/\ ai2'.runs # ai2.runs => position' = position /\ qTable' = qTable
       /\ runs' # runs => ai2'.position = ai2.position /\ ai2'.qTable = ai2.qTable]_vars

\* The first learn step of an agent that never explores, spawned at (0,0)
\* with an empty table.
FirstDecisionAtOrigin(r) ==
    /\ LearnStepOf(r)
    /\ explorationRate = Zero
    /\ spawn = [x |-> 0, y |-> 0]
    /\ position = [x |-> 0, y |-> 0]
    /\ qTable = <<>>
    /\ episodes = <<>>
    /\ runs[r].episode.decisions = <<>>

\* C21 as stated: in the scenario the first decision chooses UP and the
\* agent moves one cell.
C21_FirstDecisionMoves ==
    [][\A r \in 1 .. Len(runs) :
          FirstDecisionAtOrigin(r) =>
             /\ Last(runs'[r].episode.decisions).action = actions[1]
             /\ Abs(position'.x - position.x) + Abs(position'.y - position.y) = 1]_vars

\* C21 amended: in the scenario the first decision chooses UP, the first
\* action in enumeration order, and UP's rule (y decreases by 1, floored at
\* 0) leaves the agent on (0,0): the first Decision is a bump into the wall.
C21_FirstDecisionUp ==
    [][\A r \in 1 .. Len(runs) :
          FirstDecisionAtOrigin(r) =>
             /\ actions[1] = "UP"
             /\ Last(runs'[r].episode.decisions).action = "UP"
             /\ position' = [x |-> position.x, y |-> Max(0, position.y - 1)]
             /\ position' = [x |-> 0, y |-> 0]
             /\ Last(runs'[r].episode.decisions).position = [x |-> 0, y |-> 0]]_vars

\* C21 witness: the scenario's agent has taken its first Decision, UP, and
\* stands on (0,0).
C21_Witness ==
    /\ explorationRate = Zero
    /\ spawn = [x |-> 0, y |-> 0]
    /\ episodes = <<>>
    /\ nDecisions = 1
    /\ \E r \in 1 .. Len(runs) :
          /\ Len(runs[r].episode.decisions) = 1
          /\ runs[r].episode.decisions[1].action = "UP"
    /\ position = [x |-> 0, y |-> 0]

\* C22: the Decision of a learn step holds the agent's position after the
\* move, the Manhattan distance from there to the goal, the reward of that
\* cell (100 on the goal, minus a tenth of the distance elsewhere) and the
\* action of the step: the one that moved the agent and whose Q-value, alone
\* in the row of the cell left, the step may have changed.
C22_DecisionConsistent ==
    [][\A r \in 1 .. Len(runs) :
          LearnStepOf(r) =>
             LET d == Last(runs'[r].episode.decisions)
             IN  /\ d.position = position'
                 /\ d.distanceToGoal =
                       Abs(position'.x - goal.x) + Abs(position'.y - goal.y)
                 /\ d.reward = IF position' = goal
                               THEN RatOfInt(100)
                               ELSE Rat(-d.distanceToGoal, 10)
                 /\ d.action \in ActionSet
                 /\ position' = commitAction(position, d.action)
                 /\ StateKey(position) \in DOMAIN qTable'
                 /\ \A b \in ActionSet \ {d.action} :
                       QAt(qTable', position, b) = QAt(qTable, position, b)
                 /\ SubSeq(runs'[r].episode.decisions, 1, Len(runs[r].episode.decisions))
                       = runs[r].episode.decisions]_vars

\* C22 witness: an episode holds a Decision off the goal, at distance 1 with
\* reward -1/10, followed by the Decision that reached the goal, at distance
\* 0 with reward 100.
C22_Witness ==
    \E r \in 1 .. Len(runs) :
       LET ds == runs[r].episode.decisions
       IN  /\ Len(ds) = 2
           /\ ds[1].distanceToGoal = 1 /\ ds[1].reward = Rat(-1, 10)
           /\ ds[1].position # goal
           /\ ds[2].distanceToGoal = 0 /\ ds[2].reward = RatOfInt(100)
           /\ ds[2].position = goal /\ position = goal

\* C23: the run that startTraining starts uses the explorationRate, the
\* learningRate and the discountFactor of the parameter fields: when the
\* handler has started a run, the agent's three hyperparameters are the
\* parsed field values.
C23_ParametersReachCore ==
    [][(Len(runs') = Len(runs) + 1 /\ Last(runs').caller = "startTraining") =>
          /\ explorationRate' = parseFloat(inputs'.explorationRate)
          /\ learningRate' = parseFloat(inputs'.learningRate)
          /\ discountFactor' = parseFloat(inputs'.discountFactor)]_vars

\* C24: a learn step writes one entry of the Q-table, that of the cell the
\* agent left and the action of the step: every other pair of a cell and an
\* action reads the same value after the step as before it, and the written
\* entry reads a new value unless the update's target equals the old value.
C24_OneEntryChanges ==
    [][\A r \in 1 .. Len(runs) :
          LearnStepOf(r) =>
             LET a      == Last(runs'[r].episode.decisions).action
                 target == RatAdd(Last(runs'[r].episode.decisions).reward,
                                  RatMul(discountFactor, MaxQAt(qTable, position')))
             IN  /\ \A p \in Positions, b \in ActionSet :
                       <<p, b>> # <<position, a>> => QAt(qTable', p, b) = QAt(qTable, p, b)
                 /\ DOMAIN qTable' = DOMAIN qTable \cup {StateKey(position)}
                 /\ (QAt(qTable', position, a) = QAt(qTable, position, a))
                       <=> (target = QAt(qTable, position, a))]_vars

\* C24 witness: the table holds learned values for two cells, the origin
\* among them, and the agent stands on a third cell: the later steps left
\* the origin's entry as it was written.
C24_Witness ==
    /\ \E p \in Positions \ {Origin, position} :
          /\ StateKey(p) \in DOMAIN qTable
          /\ \E a \in ActionSet : qTable[StateKey(p)][a] # Zero
    /\ StateKey(Origin) \in DOMAIN qTable
    /\ \E a \in ActionSet : qTable[StateKey(Origin)][a] = Rat(-1, 100)
    /\ position # Origin

\* C25: the goal cell is never the source of an update: no learn step
\* starts on the goal, the table has no row for the goal, and all four
\* Q-values of the goal read 0.
C25_GoalRowZero ==
    [][/\ \A a \in ActionSet : getQValue(StateKey(goal), a) = Zero
       /\ StateKey(goal) \notin DOMAIN qTable
       /\ \A a \in ActionSet : <<StateKey(goal), a>> \notin updated
       /\ \A r \in 1 .. Len(runs) : LearnStepOf(r) => position # goal]_vars

\* C25 witness: a first episode has ended on the goal, the table has learned
\* values, and the next episode, respawned, has taken a Decision.
C25_Witness ==
    /\ Len(episodes) = 1
    /\ Last(episodes[1].decisions).position = goal
    /\ qTable # <<>>
    /\ \E r \in 1 .. Len(runs) : runs[r].interval /\ Len(runs[r].episode.decisions) = 1
    /\ \A a \in ActionSet : getQValue(StateKey(goal), a) = Zero

\* C26: a training state ends: while the training flag is true the run that
\* startTraining started is pending with an episode timer set, whose
\* callbacks go on to settle the promise and reset the flag; the flag is
\* never true with the promise pending and nothing left to run, also when
\* the completion callback throws or the episode count is zero.
C26_TrainingEnds ==
    training =>
       \E r \in 1 .. Len(runs) :
          /\ runs[r].caller = "startTraining"
          /\ runs[r].settled = "pending"
          /\ runs[r].interval

\* A click on reset has run: the table and the history are empty and the
\* alert of resetTraining is up.
ResetStep ==
    /\ alertMsg' = "Training data has been reset"
    /\ qTable' = <<>>
    /\ episodes' = <<>>
    /\ runs' = runs

\* C27: between handlers the start control, the reset control and the
\* parameter fields are disabled exactly while the training flag is true,
\* which is exactly while an episode's timer is set; the step that ends a
\* run enables them again; so a reset, and every step that empties a
\* non-empty table or history, happens with no episode in progress.
C27_ControlsFollowTraining ==
    [][/\ disabled.start = training /\ disabled.reset = training /\ disabled.params = training
       /\ training <=> \E r \in 1 .. Len(runs) : runs[r].interval
       /\ disabled'.start = training' /\ disabled'.reset = training'
       /\ disabled'.params = training'
       /\ training' <=> \E r \in 1 .. Len(runs') : runs'[r].interval
       /\ training /\ ~training' =>
             /\ ~disabled'.start /\ ~disabled'.reset /\ ~disabled'.params
             /\ \A r \in 1 .. Len(runs) : runs'[r].settled = "fulfilled"
       /\ (ResetStep \/ (qTable # <<>> /\ qTable' = <<>>)
                     \/ (episodes # <<>> /\ episodes' = <<>>)) =>
             /\ ~training
             /\ \A r \in 1 .. Len(runs) : ~runs[r].interval]_vars

\* C27 witness: a run has trained and ended, the controls are enabled
\* again, and a reset has emptied what the run had learned.
C27_Witness ==
    /\ Len(runs) >= 1
    /\ runs[1].settled = "fulfilled"
    /\ runs[1].i >= 1
    /\ ~training
    /\ ~disabled.reset
    /\ alertMsg = "Training data has been reset"
    /\ qTable = <<>>
    /\ episodes = <<>>

====
